---- MODULE Spec2Model ----
(***************************************************************************)
(* kvexpress: the `out` command (outRun) and the file helpers of           *)
(* commands/files.go, as a state machine over one managed target file and  *)
(* its sibling files (.kvexpress, .locked, .last); and SortFile, a pure    *)
(* function of a string, under a specification of its own (SpecSort).      *)
(*                                                                         *)
(* A path is the sequence of its components, "/" first when absolute.      *)
(* A file content is a sequence of chunks; a chunk is what one write(2)    *)
(* puts on disk.  Open file descriptors follow the inode, not the name.    *)
(***************************************************************************)
EXTENDS Integers, Sequences, FiniteSets, TLC

VARIABLES
    parent,   \* the target's parent directory: "absent", "dir", or "file" (a name collision)
    fs,       \* path -> NoFile, Dir, or a regular file [kind, content, mode, uid]
    proc,     \* process slot -> the process running in it (its command, inputs and position)
    runs,     \* number of commands started so far
    exclusive,\* whether the caller runs one command at a time (its own concurrency discipline)
    hist      \* history: the target at Init and the data last committed to the target

vars == <<parent, fs, proc, runs, exclusive, hist>>

----------------------------------------------------------------------------
(* Bounds of the model *)

MaxLen == 2      \* longest KV value, in chunks
MaxRuns == 2     \* commands started in one behaviour, one at a time
MaxRace == 2     \* commands started in one behaviour when they may overlap
MaxChars == 4    \* longest string given to SortFile, in characters

Procs == {"p1", "p2"}
Bytes == {"a", "b"}
Nul == "\\0"     \* what a hole left by a write past the end of a file reads as
Reasons == {"incident", "upgrade"}
Owners == {"consul"}
Modes == {384, 416}   \* 0600 and 0640 (the default of --chmod)
Euid == "euid"        \* the uid a file gets when the process creates it

None == "none"
NoCommit == <<"(nothing committed)">>   \* hist.committed before the first commit
NoFile == [kind |-> "absent"]
Dir == [kind |-> "dir"]
Orphan == <<"(unlinked)">>   \* where the descriptor of an inode without a name points

\* the values a Get returns: "" (no key, or an error), "a", "b", "ab", "ba", ...
Alternating(first, n) ==
    [i \in 1..n |-> IF i % 2 = 1 THEN first ELSE CHOOSE b \in Bytes : b # first]
KVValues == {Alternating(first, n) : first \in Bytes, n \in 0..MaxLen}
BadChecksum == <<"sha256", "of something else">>

----------------------------------------------------------------------------
(* Paths *)

\* the temp suffix mixed up with the marker's
fileSuffixLocked == "locked"

fileSuffix == "kvexpress"

Target == <<"/", "etc", "app.conf">>

\* the same file named from the working directory, and the working directory
RelTarget == <<"etc", "app.conf">>
Cwd == <<"/">>

\* strings.HasPrefix(file, "/"): the filename begins with a slash
CheckFullFilename(file) == file # <<>> /\ file[1] = "/"

\* the file a system call names by path: a relative path starts at the working directory
Abs(path) == IF CheckFullFilename(path) THEN path ELSE Cwd \o path

PathDir(file) == SubSeq(file, 1, Len(file) - 1)
PathBase(file) == file[Len(file)]
PathJoin(dir, base) == Append(dir, base)

\* no temp name: the write goes to the file itself
TmpFilepathInPlace(filepath) == filepath

\* fmt.Sprintf("%s.%s", filepath, fileSuffix)
TmpFilepath(filepath) == [filepath EXCEPT ![Len(filepath)] = @ \o "." \o fileSuffix]

LastFilename(file) == PathJoin(PathDir(file), PathBase(file) \o ".last")

\* the marker has the name of the file it locks
LockFilePathSame(file) == file

\* fmt.Sprintf("%s.locked", file)
LockFilePath(file) == [file EXCEPT ![Len(file)] = @ \o ".locked"]

Files == {Target, TmpFilepath(Target),
          LockFilePath(Target), TmpFilepath(LockFilePath(Target)),
          LastFilename(Target), TmpFilepath(LastFilename(Target))}

Tmp == TmpFilepath(Target)
Marker == LockFilePath(Target)
Last == LastFilename(Target)

IsFile(f) == f.kind = "file"

\* os.Stat finds nothing at any path
ExistsNever(path) == FALSE

\* os.Stat(path) returns no error
Exists(path) == fs[path] # NoFile

----------------------------------------------------------------------------
(* Pure helpers *)

\* sha256 of the content: equal contents, equal sums; no two contents of the model collide
ComputeChecksum(data) == <<"sha256">> \o data

ChecksumCompare(data, checksum) == ComputeChecksum(data) = checksum

LengthCheck(data, minLength) == Len(data) >= minLength

\* the numeric id the name resolves to
GetOwnerID(owner) == "uid:" \o owner

LockedFileText(file, reason) ==
    <<"To unlock " \o PathBase(file) \o ": sudo kvexpress unlock. Reason Locked: " \o reason>>

BlankLastText == <<"This is a blank file.\n">>

\* one write(2) of chunk c at offset pos of a file holding content
WriteAt(content, pos, c) ==
    IF pos < Len(content) THEN [content EXCEPT ![pos + 1] = c]
    ELSE content \o [i \in 1..(pos - Len(content)) |-> Nul] \o <<c>>

----------------------------------------------------------------------------
(* Processes *)

\* exit is the exit status, -1 while there is none; pre, tmpAtStart, committedAtStart,
\* lockedAtStart and sameAtStart record what the command found when it started
Idle == [pc |-> "idle", cmd |-> None, exit |-> -1,
         KVData |-> <<>>, Checksum |-> <<>>, MinFileLength |-> 0,
         data |-> <<>>, filepath |-> <<>>, perms |-> 0, owner |-> "",
         pos |-> 0, fd |-> Orphan,
         pre |-> NoFile, tmpAtStart |-> NoFile, committedAtStart |-> NoCommit,
         lockedAtStart |-> FALSE, sameAtStart |-> FALSE,
         outcome |-> None, postRan |-> FALSE]

WritePcs == {"CheckFullPath", "OpenTmp", "WriteTmp", "ChownFile", "Rename"}
Running(p) == proc[p].pc \notin {"idle", "done", "killed"}

\* a command starts in slot p
Free(q) == proc[q].pc \in {"idle", "done", "killed"}
Start(p) ==
    /\ Free(p)
    /\ p = CHOOSE q \in Procs : Free(q)
    /\ runs < (IF exclusive THEN MaxRuns ELSE MaxRace)
    /\ exclusive => \A q \in Procs : Free(q)
    /\ runs' = runs + 1

\* the process has ended: what is left of it is its exit status and what it did
Exited(r, exit, outcome) ==
    [Idle EXCEPT !.pc = "done", !.cmd = r.cmd, !.exit = exit, !.outcome = outcome,
                 !.pre = r.pre, !.postRan = r.postRan]

\* StatsdPanic: report the failure and end the process
StatsdPanic(r) == Exited(r, 1, "fatal")

\* The descriptors after `from` is renamed over `to`: they follow their inode.
FdAfterRename(fd, from, to) ==
    IF fd = from THEN to ELSE IF fd = to THEN Orphan ELSE fd

\* The descriptors after `path` is unlinked.
FdAfterRemove(fd, path) == IF fd = path THEN Orphan ELSE fd

----------------------------------------------------------------------------
(* WriteFile(data, filepath, perms, owner), one step per filesystem call *)

\* the frame of a call of WriteFile in process record r
EnterWriteFile(r, data, filepath, perms, owner) ==
    [r EXCEPT !.pc = "CheckFullPath", !.data = data, !.filepath = filepath,
              !.perms = perms, !.owner = owner, !.pos = 0, !.fd = Orphan]

\* what the caller does when WriteFile returns
ReturnFromWriteFile(r) ==
    IF r.cmd = "out"
    THEN [r EXCEPT !.pc = "PostExec", !.outcome = "committed"]
    ELSE Exited(r, 0, "written")

\* the error of os.MkdirAll is logged and the write goes on
CheckFullPathNoPanic(p) ==
    /\ proc[p].pc = "CheckFullPath"
    /\ parent' = (IF parent = "file" THEN "file" ELSE "dir")
    /\ proc' = [proc EXCEPT ![p].pc = "OpenTmp"]
    /\ UNCHANGED <<fs, runs, exclusive, hist>>

\* os.MkdirAll(path.Dir(file), 0755)
CheckFullPath(p) ==
    /\ proc[p].pc = "CheckFullPath"
    /\ IF parent = "file"
       THEN /\ proc' = [proc EXCEPT ![p] = StatsdPanic(@)]
            /\ UNCHANGED parent
       ELSE /\ parent' = "dir"
            /\ proc' = [proc EXCEPT ![p].pc = "OpenTmp"]
    /\ UNCHANGED <<fs, runs, exclusive, hist>>

\* the temp file is opened without O_TRUNC: what it held stays under the new content
OpenTmpNoTrunc(p) ==
    /\ proc[p].pc = "OpenTmp"
    /\ LET r == proc[p]
           tmp == Abs(TmpFilepath(r.filepath))
       IN \E ok \in BOOLEAN :
            IF ~ok \/ fs[tmp] = Dir
            THEN /\ proc' = [proc EXCEPT ![p] = StatsdPanic(@)]
                 /\ UNCHANGED fs
            ELSE /\ fs' = [fs EXCEPT ![tmp] =
                             IF fs[tmp] = NoFile
                             THEN [kind |-> "file", content |-> <<>>, mode |-> r.perms, uid |-> Euid]
                             ELSE @]
                 /\ proc' = [proc EXCEPT ![p] =
                               IF r.data = <<>>
                               THEN [r EXCEPT !.pc = "ChownFile"]
                               ELSE [r EXCEPT !.pc = "WriteTmp", !.fd = tmp]]
    /\ UNCHANGED <<parent, runs, exclusive, hist>>

\* ioutil.WriteFile, its os.OpenFile(tmp, O_WRONLY|O_CREATE|O_TRUNC, perms):
\* a new file gets perms, an existing one is truncated and keeps its mode and owner
OpenTmp(p) ==
    /\ proc[p].pc = "OpenTmp"
    /\ LET r == proc[p]
           tmp == Abs(TmpFilepath(r.filepath))
       IN \E ok \in BOOLEAN :
            IF ~ok \/ fs[tmp] = Dir
            THEN /\ proc' = [proc EXCEPT ![p] = StatsdPanic(@)]
                 /\ UNCHANGED fs
            ELSE /\ fs' = [fs EXCEPT ![tmp] =
                             IF fs[tmp] = NoFile
                             THEN [kind |-> "file", content |-> <<>>, mode |-> r.perms, uid |-> Euid]
                             ELSE [@ EXCEPT !.content = <<>>]]
                 /\ proc' = [proc EXCEPT ![p] =
                               IF r.data = <<>>
                               THEN [r EXCEPT !.pc = "ChownFile"]
                               ELSE [r EXCEPT !.pc = "WriteTmp", !.fd = tmp]]
    /\ UNCHANGED <<parent, runs, exclusive, hist>>

\* ioutil.WriteFile, its f.Write(data), a chunk at a time, then f.Close()
WriteTmp(p) ==
    /\ proc[p].pc = "WriteTmp"
    /\ LET r == proc[p]
       IN \E ok \in BOOLEAN :
            IF ~ok
            THEN /\ proc' = [proc EXCEPT ![p] = StatsdPanic(@)]
                 /\ UNCHANGED fs
            ELSE /\ fs' = IF r.fd = Orphan THEN fs
                          ELSE [fs EXCEPT ![r.fd].content = WriteAt(@, r.pos, r.data[r.pos + 1])]
                 /\ proc' = [proc EXCEPT ![p] =
                               IF r.pos + 1 = Len(r.data)
                               THEN [r EXCEPT !.pos = r.pos + 1, !.fd = Orphan, !.pc = "ChownFile"]
                               ELSE [r EXCEPT !.pos = r.pos + 1]]
    /\ UNCHANGED <<parent, runs, exclusive, hist>>

\* the owner is given to the target path, not to the temp file
ChownFileTarget(p) ==
    /\ proc[p].pc = "ChownFile"
    /\ LET r == proc[p]
           target == Abs(r.filepath)
       IN \E ok \in BOOLEAN :
            IF ~ok \/ fs[target] = NoFile
            THEN /\ proc' = [proc EXCEPT ![p] = StatsdPanic(@)]
                 /\ UNCHANGED fs
            ELSE /\ fs' = [fs EXCEPT ![target] =
                             IF IsFile(@) THEN [@ EXCEPT !.uid = GetOwnerID(r.owner)] ELSE @]
                 /\ proc' = [proc EXCEPT ![p].pc = "Rename"]
    /\ UNCHANGED <<parent, runs, exclusive, hist>>

\* ChownFile(tmpFilepath, owner): os.Chown by name
ChownFile(p) ==
    /\ proc[p].pc = "ChownFile"
    /\ LET r == proc[p]
           tmp == Abs(TmpFilepath(r.filepath))
       IN \E ok \in BOOLEAN :
            IF ~ok \/ fs[tmp] = NoFile
            THEN /\ proc' = [proc EXCEPT ![p] = StatsdPanic(@)]
                 /\ UNCHANGED fs
            ELSE /\ fs' = [fs EXCEPT ![tmp].uid = GetOwnerID(r.owner)]
                 /\ proc' = [proc EXCEPT ![p].pc = "Rename"]
    /\ UNCHANGED <<parent, runs, exclusive, hist>>

\* os.Rename(tmpFilepath, filepath)
Rename(p) ==
    /\ proc[p].pc = "Rename"
    /\ LET r == proc[p]
           tmp == Abs(TmpFilepath(r.filepath))
       IN \E ok \in BOOLEAN :
            IF ~ok \/ fs[tmp] = NoFile \/ fs[Abs(r.filepath)] = Dir
            THEN /\ proc' = [proc EXCEPT ![p] = StatsdPanic(@)]
                 /\ UNCHANGED <<fs, hist>>
            ELSE /\ fs' = [fs EXCEPT ![Abs(r.filepath)] = fs[tmp], ![tmp] = NoFile]
                 /\ proc' = [q \in Procs |->
                               IF q = p
                               THEN ReturnFromWriteFile([r EXCEPT !.fd = Orphan])
                               ELSE [proc[q] EXCEPT !.fd = FdAfterRename(@, tmp, Abs(r.filepath))]]
                 /\ hist' = IF r.cmd = "out"
                            THEN [hist EXCEPT !.committed = r.data]
                            ELSE hist
    /\ UNCHANGED <<parent, runs, exclusive>>

WriteFile(p) ==
    \/ CheckFullPath(p)
    \/ OpenTmp(p)
    \/ WriteTmp(p)
    \/ ChownFile(p)
    \/ Rename(p)

----------------------------------------------------------------------------
(* kvexpress out *)

\* either test is enough
ShouldWriteOr(longEnough, checksumMatch) == longEnough \/ checksumMatch
\* the checksum is not looked at
ShouldWriteLengthOnly(longEnough, checksumMatch) == longEnough

\* nothing is written on a first run, when there is no snapshot yet
ShouldWriteIfSnapshot(longEnough, checksumMatch) ==
    longEnough /\ checksumMatch /\ fs[Last] # NoFile

\* "If the data is long enough and the checksum matches, write the file."
ShouldWrite(longEnough, checksumMatch) == longEnough /\ checksumMatch

\* outRun up to its call of WriteFile: checkOutFlags, the two Gets, LengthCheck,
\* ChecksumCompare and the test of both
outRun(p) ==
    /\ Start(p)
    /\ \E KeyOutLocation \in {"", "app/key"}, FiletoWrite \in {<<>>, Target, RelTarget} :
         IF KeyOutLocation = "" \/ FiletoWrite = <<>>
         THEN /\ proc' = [proc EXCEPT ![p] = Exited([Idle EXCEPT !.cmd = "out"], 1, "usage")]
              /\ UNCHANGED hist
         ELSE \E KVData \in KVValues : \E
                 Checksum \in {ComputeChecksum(KVData), BadChecksum},
                 MinFileLength \in 1..MaxLen :
                LET longEnough == LengthCheck(KVData, MinFileLength)
                    checksumMatch == ChecksumCompare(KVData, Checksum)
                    r == [Idle EXCEPT !.cmd = "out",
                                      !.KVData = KVData, !.Checksum = Checksum,
                                      !.MinFileLength = MinFileLength,
                                      !.pre = fs[Abs(FiletoWrite)],
                                      !.tmpAtStart = fs[Abs(TmpFilepath(FiletoWrite))],
                                      !.committedAtStart = hist.committed,
                                      !.lockedAtStart = Exists(Abs(LockFilePath(FiletoWrite))),
                                      !.sameAtStart =
                                          /\ IsFile(fs[Abs(FiletoWrite)])
                                          /\ ComputeChecksum(fs[Abs(FiletoWrite)].content) = Checksum]
                IN IF ShouldWrite(longEnough, checksumMatch)
                   THEN /\ \E FilePermissions \in Modes, Owner \in Owners :
                             proc' = [proc EXCEPT ![p] =
                                        EnterWriteFile(r, KVData, FiletoWrite, FilePermissions, Owner)]
                        /\ UNCHANGED hist
                   ELSE /\ proc' = [proc EXCEPT ![p] =
                                      [r EXCEPT !.pc = "PostExec",
                                                !.outcome = IF longEnough THEN "checksumMismatch"
                                                            ELSE "tooShort"]]
                        /\ UNCHANGED hist
    /\ UNCHANGED <<parent, fs, exclusive>>

\* outRun after the write: "Run this command after the file is written."
PostExecStep(p) ==
    /\ proc[p].pc = "PostExec"
    /\ \E PostExec \in {"", "reload"} :
         proc' = [proc EXCEPT ![p] =
                    Exited([@ EXCEPT !.postRan = (PostExec # "")], 0, @.outcome)]
    /\ UNCHANGED <<parent, fs, runs, exclusive, hist>>

----------------------------------------------------------------------------
(* kvexpress lock, kvexpress unlock, and the .last file *)

\* LockFileWrite(file): os.Stat(lockedFile), then WriteFile of the instructions
LockFileWrite(p) ==
    /\ Start(p)
    /\ \E LockReason \in Reasons, FilePermissions \in Modes, Owner \in Owners :
         LET lockedFile == LockFilePath(Target)
             r == [Idle EXCEPT !.cmd = "lock"]
         IN proc' = [proc EXCEPT ![p] =
                       IF ~Exists(lockedFile)
                       THEN EnterWriteFile(r, LockedFileText(Target, LockReason), lockedFile,
                                           FilePermissions, Owner)
                       ELSE Exited(r, 0, "alreadyLocked")]
    /\ UNCHANGED <<parent, fs, exclusive, hist>>

\* RemoveFile(filename): os.Open, Stat, os.Remove
RemoveFile(p, filename) ==
    /\ Start(p)
    /\ LET r == [Idle EXCEPT !.cmd = "unlock"]
       IN CASE fs[filename] = NoFile ->
                 /\ proc' = [proc EXCEPT ![p] = Exited(r, 0, "noStat")]
                 /\ UNCHANGED fs
            [] fs[filename] = Dir ->
                 /\ proc' = [proc EXCEPT ![p] = Exited(r, 1, "isDir")]
                 /\ UNCHANGED fs
            [] OTHER ->
                 \E ok \in BOOLEAN :
                    IF ok
                    THEN /\ fs' = [fs EXCEPT ![filename] = NoFile]
                         /\ proc' = [q \in Procs |->
                                       IF q = p THEN Exited(r, 0, "removed")
                                       ELSE [proc[q] EXCEPT !.fd = FdAfterRemove(@, filename)]]
                    ELSE /\ proc' = [proc EXCEPT ![p] =
                                       Exited(r, 0, "notRemoved")]
                         /\ UNCHANGED fs
    /\ UNCHANGED <<parent, exclusive, hist>>

\* LockFileRemove(file)
LockFileRemove(p) == RemoveFile(p, LockFilePath(Target))

\* CheckLastFile(file, perms, owner), called on LastFilename of the target
CheckLastFile(p) ==
    /\ Start(p)
    /\ \E FilePermissions \in Modes, Owner \in Owners :
         LET file == LastFilename(Target)
             r == [Idle EXCEPT !.cmd = "checklast"]
         IN proc' = [proc EXCEPT ![p] =
                       IF ~Exists(file)
                       THEN EnterWriteFile(r, BlankLastText, file, FilePermissions, Owner)
                       ELSE Exited(r, 0, "lastExists")]
    /\ UNCHANGED <<parent, fs, exclusive, hist>>

----------------------------------------------------------------------------
(* CheckFiletoWrite(filename, checksum) *)

\* CheckFiletoWrite returns to its caller, which goes on to write: the process has no
\* exit status yet
Returned(r) == [Exited(r, -1, "returned") EXCEPT !.sameAtStart = r.sameAtStart]

\* os.Exit(status) in CheckFiletoWrite
Stopped(r, status, outcome) ==
    [Exited(r, status, outcome) EXCEPT !.sameAtStart = r.sameAtStart]

\* os.Open(filename) and file.Stat(): any error is taken as "there is NO file"
StatFiletoWrite(p) ==
    /\ Start(p)
    /\ \E KVData \in KVValues, ok \in BOOLEAN :
         LET filename == Target
             checksum == ComputeChecksum(KVData)
             r == [Idle EXCEPT !.cmd = "check", !.filepath = filename, !.Checksum = checksum,
                               !.pre = fs[filename],
                               !.sameAtStart =
                                   /\ IsFile(fs[filename])
                                   /\ ComputeChecksum(fs[filename].content) = checksum]
         IN proc' = [proc EXCEPT ![p] =
                       CASE ~ok \/ fs[filename] = NoFile -> Returned(r)
                         [] fs[filename] = Dir -> Stopped(r, 1, "isDir")
                         [] OTHER -> [r EXCEPT !.pc = "ReadFile"]]
    /\ UNCHANGED <<parent, fs, exclusive, hist>>

\* ioutil.ReadFile(filename), whose error is logged and leaves no data, then the
\* comparison of ComputeChecksum(data) with checksum
ReadFiletoWrite(p) ==
    /\ proc[p].pc = "ReadFile"
    /\ \E ok \in BOOLEAN :
         LET r == proc[p]
             data == IF ok /\ IsFile(fs[r.filepath]) THEN fs[r.filepath].content ELSE <<>>
             computedChecksum == ComputeChecksum(data)
         IN proc' = [proc EXCEPT ![p] =
                       IF computedChecksum = r.Checksum
                       THEN Stopped(r, 0, "sameChecksum")
                       ELSE Returned(r)]
    /\ UNCHANGED <<parent, fs, runs, exclusive, hist>>

CheckFiletoWrite(p) ==
    \/ StatFiletoWrite(p)
    \/ ReadFiletoWrite(p)

----------------------------------------------------------------------------
(* The environment *)

\* the process is killed (SIGKILL) between two of its filesystem calls
Kill(p) ==
    /\ Running(p)
    /\ proc' = [proc EXCEPT ![p] =
                   [Idle EXCEPT !.pc = "killed", !.cmd = proc[p].cmd, !.pre = proc[p].pre,
                                !.data = proc[p].data,
                                !.outcome = IF proc[p].pc = "PostExec" THEN "killedAfterWrite"
                                            ELSE "killed"]]
    /\ UNCHANGED <<parent, fs, runs, exclusive, hist>>

\* what is at the target path before the first command: nothing, a directory, or
\* a file somebody else put there (mode 0644)
InitTargets ==
    {NoFile, Dir, [kind |-> "file", content |-> <<"b">>, mode |-> 420, uid |-> Euid]}

Init ==
    /\ parent \in {"absent", "dir", "file"}
    /\ \E t \in InitTargets :
         /\ parent # "dir" => t = NoFile
         /\ fs = [f \in Files |-> IF f = Target THEN t ELSE NoFile]
         /\ hist = [orig |-> t, committed |-> NoCommit]
    /\ proc = [p \in Procs |-> Idle]
    /\ runs = 0
    /\ exclusive = TRUE

\* the same, without a caller that keeps the commands apart
InitRace ==
    /\ parent \in {"absent", "dir", "file"}
    /\ \E t \in InitTargets :
         /\ parent # "dir" => t = NoFile
         /\ fs = [f \in Files |-> IF f = Target THEN t ELSE NoFile]
         /\ hist = [orig |-> t, committed |-> NoCommit]
    /\ proc = [p \in Procs |-> Idle]
    /\ runs = 0
    /\ exclusive = FALSE

Next ==
    \E p \in Procs :
       \/ outRun(p)
       \/ WriteFile(p)
       \/ PostExecStep(p)
       \/ LockFileWrite(p)
       \/ LockFileRemove(p)
       \/ CheckLastFile(p)
       \/ CheckFiletoWrite(p)
       \/ Kill(p)

Spec == Init /\ [][Next]_vars

SpecRace == InitRace /\ [][Next]_vars

----------------------------------------------------------------------------
(* SortFile(file): a string is the sequence of its characters *)

Newline == "\n"
Chars == {"a", "b", " ", Newline}
SortInputs == UNION {[1..n -> Chars] : n \in 0..MaxChars}

\* the byte of a character
Code(c) == CASE c = Newline -> 10 [] c = " " -> 32 [] c = "a" -> 97 [] c = "b" -> 98

\* strings.Split(file, sep), sep one character
RECURSIVE Split(_, _)
Split(file, sep) ==
    IF \A i \in 1..Len(file) : file[i] # sep
    THEN <<file>>
    ELSE LET i == CHOOSE i \in 1..Len(file) :
                     file[i] = sep /\ \A j \in 1..(i - 1) : file[j] # sep
         IN <<SubSeq(file, 1, i - 1)>> \o Split(SubSeq(file, i + 1, Len(file)), sep)

\* the blank lines are kept
BlankLineStripNone(data) == data

\* BlankLineStrip(data): the strings of data that are not ""
BlankLineStrip(data) == SelectSeq(data, LAMBDA str : str # <<>>)

\* a < b for Go strings: byte by byte, a proper prefix first
Less(a, b) ==
    \E k \in 1..(Len(a) + 1) :
        /\ k <= Len(b)
        /\ \A j \in 1..(k - 1) : a[j] = b[j]
        /\ k = Len(a) + 1 \/ Code(a[k]) < Code(b[k])

\* sort.Strings(lines): ascending; equal strings cannot be told apart, so any sorting
\* algorithm gives this result
RECURSIVE SortStrings(_)
SortStrings(lines) ==
    IF lines = <<>> THEN <<>>
    ELSE LET x == Head(lines)
             rest == SortStrings(Tail(lines))
             n == Cardinality({i \in 1..Len(rest) : ~Less(x, rest[i])})
         IN SubSeq(rest, 1, n) \o <<x>> \o SubSeq(rest, n + 1, Len(rest))

\* strings.Join(lines, sep)
RECURSIVE Join(_, _)
Join(lines, sep) ==
    IF lines = <<>> THEN <<>>
    ELSE IF Len(lines) = 1 THEN lines[1]
    ELSE lines[1] \o <<sep>> \o Join(Tail(lines), sep)

SortFile(file) == Join(SortStrings(BlankLineStrip(Split(file, Newline))), Newline)

\* a caller with a string to sort: its input, the result, and the result sorted again
SortJob(file) == [pc |-> "SortFile", cmd |-> "sort", file |-> file, once |-> <<>>, twice |-> <<>>]

SortFileCall(p) ==
    /\ proc[p].pc = "SortFile"
    /\ proc' = [proc EXCEPT ![p].pc = "SortAgain", ![p].once = SortFile(proc[p].file)]
    /\ UNCHANGED <<parent, fs, runs, exclusive, hist>>

SortFileAgain(p) ==
    /\ proc[p].pc = "SortAgain"
    /\ proc' = [proc EXCEPT ![p].pc = "done", ![p].twice = SortFile(proc[p].once)]
    /\ UNCHANGED <<parent, fs, runs, exclusive, hist>>

InitSort ==
    /\ parent = "dir"
    /\ fs = [f \in Files |-> NoFile]
    /\ hist = [orig |-> NoFile, committed |-> NoCommit]
    /\ \E file \in SortInputs :
         proc = [p \in Procs |-> IF p = "p1" THEN SortJob(file) ELSE Idle]
    /\ runs = 0
    /\ exclusive = TRUE

NextSort ==
    \E p \in Procs :
       \/ SortFileCall(p)
       \/ SortFileAgain(p)

SpecSort == InitSort /\ [][NextSort]_vars

----------------------------------------------------------------------------
(* What the claims speak of *)

IsApply(p) == proc[p].cmd = "out"

\* the apply in slot p has written to the disk: it has created or truncated the temp
\* file, or is past that
HasWritten(p) ==
    \/ proc[p].pc \in {"WriteTmp", "ChownFile", "Rename"}
    \/ proc[p].outcome \in {"committed", "killedAfterWrite"}

\* the apply in slot p has not reached its rename, or ended before it
BeforeRename(p) ==
    \/ proc[p].pc \in WritePcs
    \/ proc[p].outcome \in {"killed", "fatal", "tooShort", "checksumMismatch"}

JustCommitted(p) ==
    IsApply(p) /\ proc[p].pc = "PostExec" /\ proc[p].outcome = "committed"

----------------------------------------------------------------------------
(* C1 *)

\* C1: an apply of valid content C to a target that already holds C, committed there by
\* an earlier apply with the same checksum, is a no-change skip: it writes nothing, neither
\* the temp file nor (by rename) the target.
C1_RepeatedApplyWritesNothing ==
    \A p \in Procs :
        (/\ IsApply(p)
         /\ proc[p].sameAtStart
         /\ proc[p].committedAtStart = proc[p].KVData)
        => ~HasWritten(p)

----------------------------------------------------------------------------
(* C2 *)

\* C2: an apply that starts while the marker T.locked exists is rejected whatever its
\* content and checksum: it never renames over the target, and when it ends the target
\* is as it was.
C2_LockedApplyRejected ==
    \A p \in Procs :
        (IsApply(p) /\ proc[p].lockedAtStart)
        => (/\ proc[p].outcome # "committed"
            /\ proc[p].pc = "PostExec" => fs[Target] = proc[p].pre)

----------------------------------------------------------------------------
(* C3 *)

\* C3: in every state of an apply before the rename of WriteFile, and after a kill or a
\* fatal end before it, the target is exactly what it was when the apply started.
C3_TargetUntouchedBeforeRename ==
    \A p \in Procs :
        (IsApply(p) /\ BeforeRename(p)) => fs[Target] = proc[p].pre

\* an apply killed with its temp file partly written, over a target that existed before
C3_Witness ==
    \E p \in Procs :
        /\ IsApply(p)
        /\ proc[p].pc = "killed"
        /\ proc[p].outcome = "killed"
        /\ IsFile(proc[p].pre)
        /\ IsFile(fs[Tmp])
        /\ fs[Tmp].content # <<>>
        /\ Len(fs[Tmp].content) < Len(proc[p].data)

----------------------------------------------------------------------------
(* C4 *)

\* the contents the target may hold: what it held at first, what the last rename of an
\* apply committed, and the full data of the applies now running
FullContents ==
    (IF IsFile(hist.orig) THEN {hist.orig.content} ELSE {})
    \cup ({hist.committed} \ {NoCommit})
    \cup {proc[q].KVData : q \in {r \in Procs : IsApply(r) /\ proc[r].pc \in WritePcs \cup {"PostExec"}}}

\* C4: with two applies to the same target running at once, the target never holds
\* truncated, partial or mixed content: it is the original content or the full content
\* of one of the applies.
C4_TargetNeverTorn ==
    IsFile(fs[Target]) => fs[Target].content \in FullContents

----------------------------------------------------------------------------
(* C5 *)

\* C5: right after an apply has committed content C with permissions P, the target
\* holds exactly C and has mode exactly P, whatever was on disk before.
C5_CommittedContentAndMode ==
    \A p \in Procs :
        JustCommitted(p)
        => (/\ IsFile(fs[Target])
            /\ fs[Target].content = proc[p].data
            /\ fs[Target].mode = proc[p].perms)

----------------------------------------------------------------------------
(* C6 *)

\* C6: the post-commit command has run only in an apply that committed, never in one
\* that was rejected.
C6_PostExecOnlyAfterCommit ==
    \A p \in Procs : proc[p].postRan => proc[p].outcome = "committed"

----------------------------------------------------------------------------
(* C7 *)

\* C7: an apply whose content is shorter than minLength never enters WriteFile: it is
\* rejected as too short, has no file open, and the target is as it was (or still absent).
C7_TooShortRejected ==
    \A p \in Procs :
        /\ (/\ IsApply(p)
            /\ proc[p].pc \notin {"done", "killed"}
            /\ ~LengthCheck(proc[p].KVData, proc[p].MinFileLength))
           => (/\ proc[p].pc = "PostExec"
               /\ proc[p].outcome = "tooShort"
               /\ proc[p].fd = Orphan
               /\ fs[Target] = proc[p].pre)
        /\ proc[p].outcome = "tooShort" => fs[Target] = proc[p].pre

\* a non-empty value with the right checksum, rejected for its length, over an existing target
C7_Witness ==
    \E p \in Procs :
        /\ IsApply(p)
        /\ proc[p].pc = "PostExec"
        /\ proc[p].KVData # <<>>
        /\ ~LengthCheck(proc[p].KVData, proc[p].MinFileLength)
        /\ ChecksumCompare(proc[p].KVData, proc[p].Checksum)
        /\ IsFile(fs[Target])

----------------------------------------------------------------------------
(* C8 *)

\* C8: an apply whose content does not have the declared checksum never enters
\* WriteFile, long enough or not: it is rejected and the target is as it was.
C8_ChecksumMismatchRejected ==
    \A p \in Procs :
        /\ (/\ IsApply(p)
            /\ proc[p].pc \notin {"done", "killed"}
            /\ ~ChecksumCompare(proc[p].KVData, proc[p].Checksum))
           => (/\ proc[p].pc = "PostExec"
               /\ proc[p].outcome \in {"tooShort", "checksumMismatch"}
               /\ proc[p].fd = Orphan
               /\ fs[Target] = proc[p].pre)
        /\ proc[p].outcome = "checksumMismatch" => fs[Target] = proc[p].pre

\* a value that is long enough, rejected for its checksum alone, over an existing target
C8_Witness ==
    \E p \in Procs :
        /\ IsApply(p)
        /\ proc[p].pc = "PostExec"
        /\ proc[p].outcome = "checksumMismatch"
        /\ LengthCheck(proc[p].KVData, proc[p].MinFileLength)
        /\ ~ChecksumCompare(proc[p].KVData, proc[p].Checksum)
        /\ IsFile(fs[Target])

----------------------------------------------------------------------------
(* C9 *)

\* C9: the snapshot T.last, whenever it exists, holds exactly the content of the last
\* committed apply; so it never exists before a commit.
C9_SnapshotIsLastCommit ==
    Exists(Last)
    => (/\ IsFile(fs[Last])
        /\ hist.committed # NoCommit
        /\ fs[Last].content = hist.committed)

----------------------------------------------------------------------------
(* C10 *)

\* the slot the next command starts in
Starter == CHOOSE q \in Procs : Free(q)

\* C10: the marker T.locked changes only by a step of a lock command, which creates it
\* by its rename, and by the remove of an unlock command; no step of an apply creates,
\* changes or removes it, and an apply never names it.
C10_OnlyLockAndUnlockChangeMarker ==
    [][/\ fs'[Marker] # fs[Marker]
          => IF runs' # runs
             THEN /\ proc'[Starter].cmd = "unlock"
                  /\ fs'[Marker] = NoFile
             ELSE \E p \in Procs :
                     /\ proc'[p].pc # proc[p].pc \/ proc'[p].pos # proc[p].pos
                     /\ proc[p].cmd = "lock"
                     /\ fs[Marker] = NoFile => proc[p].pc = "Rename"
                     /\ fs'[Marker] # NoFile
       /\ \A p \in Procs :
             (IsApply(p) /\ proc[p].pc \in WritePcs)
             => Marker \notin {Abs(proc[p].filepath), Abs(TmpFilepath(proc[p].filepath)),
                                proc[p].fd}
      ]_vars

\* an apply has gone through all of WriteFile with the marker in place, and it is still there
C10_Witness ==
    \E p \in Procs : JustCommitted(p) /\ proc[p].lockedAtStart /\ IsFile(fs[Marker])

----------------------------------------------------------------------------
(* C11 *)

\* C11: Lock is idempotent.  A lock command that finds no marker and returns has created
\* it, with the unlock instructions and its reason in it; a lock command that finds the
\* marker in place ends at once with exit status 0 and changes no file, whatever its reason.
C11_LockIsIdempotent ==
    [][\A p \in Procs :
          /\ (/\ runs' # runs
              /\ p = Starter
              /\ proc'[p].cmd = "lock"
              /\ fs[Marker] # NoFile)
             => (/\ fs' = fs
                 /\ parent' = parent
                 /\ proc'[p].pc = "done"
                 /\ proc'[p].exit = 0
                 /\ proc'[p].outcome = "alreadyLocked")
          /\ (proc'[p].cmd = "lock" /\ proc'[p].outcome = "written")
             => (/\ IsFile(fs'[Marker])
                 /\ fs'[Marker].content \in {LockedFileText(Target, reason) : reason \in Reasons})
      ]_vars

\* a second lock command has ended as a no-op, and the marker of the first is in place
C11_Witness ==
    \E p \in Procs :
        /\ proc[p].cmd = "lock"
        /\ proc[p].outcome = "alreadyLocked"
        /\ IsFile(fs[Marker])
        /\ fs[Marker].content \in {LockedFileText(Target, reason) : reason \in Reasons}

----------------------------------------------------------------------------
(* C12 *)

\* C12: after an unlock command has returned, the marker T.locked does not exist: it was
\* removed if it was there, and nothing was done if it was not.
C12_UnlockRemovesMarker ==
    \A p \in Procs :
        (proc[p].cmd = "unlock" /\ proc[p].pc = "done" /\ proc[p].exit = 0)
        => fs[Marker] = NoFile

----------------------------------------------------------------------------
(* C13 *)

\* C13: an apply whose target path is not absolute is rejected before any write: it never
\* creates the temp file, so it is never past the open of WriteFile, and never commits.
C13_RelativePathRejected ==
    \A p \in Procs :
        (/\ IsApply(p)
         /\ \/ proc[p].pc \in {"WriteTmp", "ChownFile", "Rename"}
            \/ JustCommitted(p))
        => CheckFullFilename(proc[p].filepath)

----------------------------------------------------------------------------
(* C14 *)

\* C14: a failure in the write sequence stops the apply at the failing step.  The step in
\* which a command fails is a step of WriteFile; it changes no file and records no commit,
\* and the process is over with exit status 1, outcome fatal and no post-commit command
\* run; after it the target of an apply is what it was when the apply started.  While the
\* parent directory could not be made no file is written at all; and an apply reports a
\* commit only when its rename has put its full content at the target.
C14_FatalStopsAtFailingStep ==
    [][/\ \A p \in Procs :
             (proc'[p].outcome = "fatal" /\ proc[p].outcome # "fatal")
             => (/\ proc[p].pc \in WritePcs
                 /\ fs' = fs
                 /\ parent' = parent
                 /\ hist' = hist
                 /\ proc'[p].pc = "done"
                 /\ proc'[p].exit = 1
                 /\ ~proc'[p].postRan
                 /\ IsApply(p) => fs'[Target] = proc[p].pre)
       /\ parent' # "dir" => \A f \in Files : fs'[f] = NoFile
       /\ \A p \in Procs :
             (proc'[p].cmd = "out" /\ proc'[p].pc = "PostExec" /\ proc'[p].outcome = "committed")
             => (/\ IsFile(fs'[Target])
                 /\ fs'[Target].content = proc'[p].data
                 /\ hist'.committed = proc'[p].data)
      ]_vars

\* an apply has failed at its rename, the target being a directory, with its temp file
\* written
C14_Witness ==
    \E p \in Procs :
        /\ IsApply(p)
        /\ proc[p].outcome = "fatal"
        /\ proc[p].exit = 1
        /\ fs[Target] = Dir
        /\ IsFile(fs[Tmp])
        /\ fs[Tmp].content # <<>>

----------------------------------------------------------------------------
(* C15 *)

\* C15: whatever an earlier, killed attempt left in T.kvexpress, an apply of valid content
\* C that runs to its commit leaves the target holding exactly C and no T.kvexpress: the
\* stale content of the temp file never reaches the target.
C15_LeftoverTempCleaned ==
    \A p \in Procs :
        JustCommitted(p)
        => (/\ IsFile(fs[Target])
            /\ fs[Target].content = proc[p].KVData
            /\ fs[Tmp] = NoFile)

\* an apply has committed over a temp file that a killed attempt had left with content
\* longer than, and different from, what the apply wrote
C15_Witness ==
    \E p \in Procs :
        /\ JustCommitted(p)
        /\ IsFile(proc[p].tmpAtStart)
        /\ Len(proc[p].tmpAtStart.content) > Len(proc[p].KVData)
        /\ proc[p].tmpAtStart.content[1] # proc[p].KVData[1]
        /\ fs[Target].content = proc[p].KVData

----------------------------------------------------------------------------
(* C16 *)

\* C16: the owner is given to the temp file before the rename and never to the target
\* path.  So whoever reads the target during an apply finds the file that was there when
\* the apply started, untouched, until the rename; and from the rename on finds the full
\* new content already owned by the id that ownerSpec resolves to.
C16_OwnerSetBeforeRename ==
    \A p \in Procs :
        /\ (IsApply(p) /\ proc[p].pc \in WritePcs) => fs[Target] = proc[p].pre
        /\ JustCommitted(p)
           => (/\ IsFile(fs[Target])
               /\ fs[Target].content = proc[p].data
               /\ fs[Target].uid = GetOwnerID(proc[p].owner))

\* an apply has committed over a file of another owner: the target has the new content
\* and the resolved owner
C16_Witness ==
    \E p \in Procs :
        /\ JustCommitted(p)
        /\ IsFile(proc[p].pre)
        /\ proc[p].pre.uid # GetOwnerID(proc[p].owner)
        /\ proc[p].pre.content # proc[p].data
        /\ fs[Target].uid = GetOwnerID(proc[p].owner)

----------------------------------------------------------------------------
(* C17 *)

\* what the inputs of the apply in slot p decide, the snapshot not being looked at
DecidedOutcome(p) ==
    IF ~LengthCheck(proc[p].KVData, proc[p].MinFileLength) THEN "tooShort"
    ELSE IF ~ChecksumCompare(proc[p].KVData, proc[p].Checksum) THEN "checksumMismatch"
    ELSE "committed"

\* C17: whether an apply writes is decided by its content, checksum and minimum length
\* alone, and what it leaves at the target by these and the live target: an apply is in
\* WriteFile exactly when its inputs are valid, and past it the outcome is the one the
\* inputs decide, the target holding the new content after a commit and what it held
\* before after a rejection.  T.last appears nowhere in this, so two runs that differ only
\* in T.last end alike; and a first run, with no target and no snapshot, is not a skip.
C17_DecisionIgnoresSnapshot ==
    \A p \in Procs :
        /\ (IsApply(p) /\ proc[p].pc \in WritePcs) => DecidedOutcome(p) = "committed"
        /\ (IsApply(p) /\ proc[p].pc = "PostExec")
           => (/\ proc[p].outcome = DecidedOutcome(p)
               /\ IF proc[p].outcome = "committed"
                  THEN IsFile(fs[Target]) /\ fs[Target].content = proc[p].KVData
                  ELSE fs[Target] = proc[p].pre)

\* an apply has committed changed content while T.last held something else, and there
\* was a target before
C17_Witness ==
    \E p \in Procs :
        /\ JustCommitted(p)
        /\ IsFile(fs[Last])
        /\ fs[Last].content # proc[p].KVData
        /\ proc[p].pre # fs[Target]

----------------------------------------------------------------------------
(* C18 *)

\* C18: CheckFiletoWrite(filename, checksum) ends in one of three ways, decided by what
\* is at filename: a directory, it stops with a non-zero exit status; a regular file whose
\* content has the given checksum, it stops with exit status 0; no file, or a file with
\* another checksum, it returns so that the write goes on.
C18_CheckFiletoWriteOutcomes ==
    \A p \in Procs :
        (proc[p].cmd = "check" /\ proc[p].pc = "done")
        => CASE proc[p].pre = Dir ->
                  proc[p].outcome = "isDir" /\ proc[p].exit = 1
             [] IsFile(proc[p].pre) /\ proc[p].sameAtStart ->
                  proc[p].outcome = "sameChecksum" /\ proc[p].exit = 0
             [] OTHER ->
                  proc[p].outcome = "returned"

----------------------------------------------------------------------------
(* C19 *)

\* the command that takes the step, when the process in slot p takes it
Stepping(p) == IF runs' # runs THEN proc'[p].cmd ELSE proc[p].cmd

\* C19: no step of a lock or an unlock command, and no step of an apply that ends
\* rejected, changes the target T or the snapshot T.last in content, mode, owner or
\* existence: through any sequence of them both stay as the last commit left them.
C19_LockAndUnlockFrame ==
    [][\A p \in Procs :
          (/\ proc'[p] # proc[p]
           /\ \/ Stepping(p) \in {"lock", "unlock"}
              \/ /\ Stepping(p) = "out"
                 /\ \/ proc'[p].outcome \in {"tooShort", "checksumMismatch", "usage"}
                    \/ proc[p].outcome \in {"tooShort", "checksumMismatch"})
          => (/\ fs'[Target] = fs[Target]
              /\ fs'[Last] = fs[Last])
      ]_vars

\* a lock command has created the marker after an apply committed, and the target still
\* holds what was committed
C19_Witness ==
    \E p \in Procs :
        /\ proc[p].cmd = "lock"
        /\ proc[p].outcome = "written"
        /\ IsFile(fs[Marker])
        /\ hist.committed # NoCommit
        /\ IsFile(fs[Target])
        /\ fs[Target].content = hist.committed

----------------------------------------------------------------------------
(* C20 *)

\* the lines of a string, told by where its newlines are: a line starts after position 0
\* and after every newline, and ends before the next newline or the end
LineBounds(str) == {0, Len(str) + 1} \cup {i \in 1..Len(str) : str[i] = Newline}
LineStarts(str) == LineBounds(str) \ {Len(str) + 1}
LineFrom(str, i) ==
    LET j == CHOOSE j \in LineBounds(str) :
                 j > i /\ \A k \in LineBounds(str) : k > i => j <= k
    IN SubSeq(str, i + 1, j - 1)
LineCount(str, line) == Cardinality({i \in LineStarts(str) : LineFrom(str, i) = line})
NonBlankLines(str) == {LineFrom(str, i) : i \in LineStarts(str)} \ {<<>>}

\* C20: SortFile returns the non-blank lines of its input, each as often as in the input
\* and no other line, in ascending order, joined by newlines, with no blank line in the
\* result; sorting the result again changes nothing; and an input with only blank lines
\* gives the empty string.  A blank line is an empty one, as in BlankLineStrip: a line of
\* spaces is a line like any other.
C20_SortFileSortsNonBlankLines ==
    \A p \in Procs :
        (proc[p].cmd = "sort" /\ proc[p].pc # "SortFile")
        => LET file == proc[p].file
               out == proc[p].once
           IN /\ NonBlankLines(out) = NonBlankLines(file)
              /\ \A line \in NonBlankLines(file) : LineCount(out, line) = LineCount(file, line)
              /\ out # <<>> => LineCount(out, <<>>) = 0
              /\ \A i, j \in LineStarts(out) :
                    i < j => ~Less(LineFrom(out, j), LineFrom(out, i))
              /\ NonBlankLines(file) = {} => out = <<>>
              /\ proc[p].pc = "done" => proc[p].twice = out

\* SortFile has been applied, twice, to a string with a blank line in it and two
\* lines out of order
C20_Witness ==
    \E p \in Procs :
        /\ proc[p].cmd = "sort"
        /\ proc[p].pc = "done"
        /\ LineCount(proc[p].file, <<>>) > 0
        /\ \E i, j \in LineStarts(proc[p].file) :
              i < j /\ Less(LineFrom(proc[p].file, j), LineFrom(proc[p].file, i))
        /\ proc[p].once # proc[p].file
        /\ proc[p].once # <<>>

====
